---- MODULE Spec2Model ----
(***************************************************************************)
(* State-machine model of VoiceResponsePlugin (src/src/index.ts): one      *)
(* trial of the recording / review / conclusion lifecycle, the device,     *)
(* timer, observer and FileReader tasks that drive it, and the detached    *)
(* transcribe() call.                                                      *)
(*                                                                         *)
(* Every handler of the class is a pure operator on the record S of the    *)
(* instance fields and of the browser objects the handlers touch; an       *)
(* action applies one handler to S, runs the promise job the handler       *)
(* queued (a microtask runs before the next task) and commits the result.  *)
(* Wall-clock values are abstracted to the recording they were taken in.   *)
(***************************************************************************)
EXTENDS Naturals, Integers, Sequences, FiniteSets, TLC

\* ------------------------------------------------------------- bounds
MaxAttempts == 2
MaxAttemptsReview == 3
MaxData == 1
MaxFinish == 2

\* ------------------------------------------------------------- values
\* null / undefined is the empty tuple, a value v is the one-tuple <<v>>
Null == <<>>
Some(v) == <<v>>
Val(x) == x[1]

\* trial parameters that reach the control flow (info.parameters)
Parameters ==
  [ allow_playback : BOOLEAN,
    local_download : BOOLEAN,
    save_audio_url : BOOLEAN,
    show_done_button : BOOLEAN,
    recording_duration : {Null, Some(2000)},
    stimulus_duration : {Null, Some(1000)} ]

DeviceEvents == {"dataavailable", "stop", "start"}

VARIABLES
  trial,                 \* the trial parameters (immutable)
  recorder_state,        \* MediaRecorder.state
  events,                \* MediaRecorder events queued and not yet dispatched
  listeners,             \* event types the plugin listens to on the recorder
  nstarts,               \* recordings started by recorder.start()
  nfrags,                \* blobs the device produced in the current recording
  recorded_data_chunks,
  audio_url,
  response,
  load_resolver,         \* the promise this.load_resolver resolves, if any
  rt,
  stimulus_start_time,
  recorder_start_time,
  data,
  arrayBuffer,
  display,               \* display_element.innerHTML
  timeouts,              \* pluginAPI.setTimeout callbacks not yet run
  observers,             \* ResizeObserver callbacks not yet run
  readers,               \* FileReader.readAsDataURL loads not yet delivered
  bufferReaders,         \* FileReader.readAsArrayBuffer loads not yet delivered
  urls,                  \* object URLs created
  object_urls,           \* object URLs created and not revoked
  calls,                 \* jsPsych.finishTrial and transcribe calls, in order
  tx,                    \* the transcribe() invocations and where each stands
  hist,                  \* per endTrial entry: how and when it was entered
  fired,                 \* recording deadlines that ran, and whether they stopped
  ext_stopped,           \* the device was stopped from outside the plugin
  start_thrown           \* the task that ran last ended in recorder.start()
                         \* throwing InvalidStateError

vars ==
  << trial, recorder_state, events, listeners, nstarts, nfrags,
     recorded_data_chunks, audio_url, response, load_resolver, rt,
     stimulus_start_time, recorder_start_time, data, arrayBuffer, display,
     timeouts, observers, readers, bufferReaders, urls, object_urls, calls,
     tx, hist, fired, ext_stopped, start_thrown >>

\* the current state as one record, as a task finds it; job is the promise
\* job queued by the running handler (none between tasks), start_thrown is
\* about the running task
S ==
  [ recorder_state |-> recorder_state, events |-> events,
    listeners |-> listeners, nstarts |-> nstarts, nfrags |-> nfrags,
    recorded_data_chunks |-> recorded_data_chunks, audio_url |-> audio_url,
    response |-> response, load_resolver |-> load_resolver, rt |-> rt,
    stimulus_start_time |-> stimulus_start_time,
    recorder_start_time |-> recorder_start_time, data |-> data,
    arrayBuffer |-> arrayBuffer, display |-> display, timeouts |-> timeouts,
    observers |-> observers, readers |-> readers,
    bufferReaders |-> bufferReaders, urls |-> urls, object_urls |-> object_urls,
    calls |-> calls, tx |-> tx, hist |-> hist, fired |-> fired,
    ext_stopped |-> ext_stopped, start_thrown |-> FALSE, job |-> FALSE ]

Commit(s) ==
  /\ recorder_state' = s.recorder_state
  /\ events' = s.events
  /\ listeners' = s.listeners
  /\ nstarts' = s.nstarts
  /\ nfrags' = s.nfrags
  /\ recorded_data_chunks' = s.recorded_data_chunks
  /\ audio_url' = s.audio_url
  /\ response' = s.response
  /\ load_resolver' = s.load_resolver
  /\ rt' = s.rt
  /\ stimulus_start_time' = s.stimulus_start_time
  /\ recorder_start_time' = s.recorder_start_time
  /\ data' = s.data
  /\ arrayBuffer' = s.arrayBuffer
  /\ display' = s.display
  /\ timeouts' = s.timeouts
  /\ observers' = s.observers
  /\ readers' = s.readers
  /\ bufferReaders' = s.bufferReaders
  /\ urls' = s.urls
  /\ object_urls' = s.object_urls
  /\ calls' = s.calls
  /\ tx' = s.tx
  /\ hist' = s.hist
  /\ fired' = s.fired
  /\ ext_stopped' = s.ext_stopped
  /\ start_thrown' = s.start_thrown
  /\ UNCHANGED trial

\* the bounds of the model, on the state an action leads to
Within(s) ==
  /\ s.nstarts <= MaxAttemptsReview
  /\ Len(s.hist) <= MaxFinish

\* ------------------------------------------------------------- display
Blank == [view |-> "blank", att |-> 0, done |-> FALSE, hidden |-> FALSE, src |-> Null]

\* ------------------------------------------------------------- MediaRecorder
Event(type, att, ser, size) == [type |-> type, att |-> att, ser |-> ser, size |-> size]

\* MediaRecorder.start(): InvalidStateError unless inactive; the start event
\* is dispatched by a later task
recorder_start(s) ==
  IF s.recorder_state # "inactive" THEN [s EXCEPT !.start_thrown = TRUE]
  ELSE [s EXCEPT !.recorder_state = "recording",
                 !.nstarts = @ + 1,
                 !.nfrags = 0,
                 !.events = Append(@, Event("start", s.nstarts + 1, 0, 0))]

\* MediaRecorder.stop(): nothing when inactive; otherwise the recorder is
\* inactive at once and a task delivers the last blob (of `size`) and stop
recorder_stop(s, size) ==
  IF s.recorder_state = "inactive" THEN s
  ELSE [s EXCEPT !.recorder_state = "inactive",
                 !.nfrags = @ + 1,
                 !.events = @ \o << Event("dataavailable", s.nstarts, s.nfrags + 1, size),
                                    Event("stop", s.nstarts, 0, 0) >>]

\* ------------------------------------------------------------- the plugin
\* URL.revokeObjectURL(this.audio_url): no effect on undefined or revoked
revokeObjectURL(s) ==
  [s EXCEPT !.object_urls = @ \ {s.audio_url[i] : i \in DOMAIN s.audio_url}]

\* transcribe(audio_url, arrayBuffer, data) is entered: pipeline(...) is
\* called and awaited
transcribe(s, url) ==
  [s EXCEPT !.calls = Append(@, [op |-> "transcribe",
                                 arg |-> [audio_url |-> url,
                                          arrayBuffer |-> s.arrayBuffer,
                                          data |-> s.data]]),
            !.tx = Append(@, [pc |-> "pipeline", audio_url |-> url])]

\* jsPsych.finishTrial(trial_data)
finishTrial(s, trial_data) ==
  [s EXCEPT !.calls = Append(@, [op |-> "finishTrial", arg |-> trial_data])]

\* what hist keeps of an entry into endTrial: the caller, the recording armed
\* last, the display and the object URLs left live
Entry(s, via) ==
  [ via |-> via, attempt |-> s.recorder_start_time,
    view |-> s.display.view, object_urls |-> s.object_urls ]

endTrial_transcribe_first(s, via) ==
  LET s1 == [s EXCEPT !.listeners = {}]
      trial_data ==
        [ rt |-> s1.rt,
          response |-> s1.response,
          estimated_stimulus_onset |->
            [stimulus |-> s1.stimulus_start_time, recorder |-> s1.recorder_start_time],
          audio_url |-> IF trial.save_audio_url THEN s1.audio_url ELSE Null ]
      s2 == IF trial.save_audio_url THEN s1 ELSE revokeObjectURL(s1)
      s3 == [s2 EXCEPT !.hist = Append(@, Entry(s2, via))]
  IN finishTrial(transcribe(s3, trial_data.audio_url), trial_data)

\* endTrial(display_element, trial); via names the caller
endTrial(s, via) ==
  LET s1 == [s EXCEPT !.listeners = {}]
      trial_data ==
        [ rt |-> s1.rt,
          response |-> s1.response,
          estimated_stimulus_onset |->
            [stimulus |-> s1.stimulus_start_time, recorder |-> s1.recorder_start_time],
          audio_url |-> IF trial.save_audio_url THEN s1.audio_url ELSE Null ]
      s2 == IF trial.save_audio_url THEN s1 ELSE revokeObjectURL(s1)
      s3 == [s2 EXCEPT !.hist = Append(@, Entry(s2, via))]
  IN transcribe(finishTrial(s3, trial_data), trial_data.audio_url)

\* showPlaybackControls(display_element, trial): the audio element is bound
\* to this.audio_url as it is now
showPlaybackControls(s) ==
  [s EXCEPT !.display = [view |-> "playback", att |-> s.display.att,
                         done |-> FALSE, hidden |-> FALSE, src |-> s.audio_url]]

afterStop_direct(s) == endTrial(s, "stopped")

\* the .then(...) of stopRecording(), the same in the click listener and in
\* the deadline callback
afterStop(s) ==
  IF trial.allow_playback THEN showPlaybackControls(s) ELSE endTrial(s, "stopped")

\* the microtask checkpoint after a handler: the job of a promise resolved
\* by the handler runs before any other task
RunJob(s) ==
  IF s.job THEN afterStop([s EXCEPT !.job = FALSE]) ELSE s

\* this.load_resolver() on a defined resolver: a promise resolves once
load_resolver_call(s) ==
  IF Val(s.load_resolver).resolved THEN s
  ELSE [s EXCEPT !.load_resolver = Some([Val(@) EXCEPT !.resolved = TRUE]),
                 !.job = TRUE]

\* new Promise(...) in stopRecording: made during recording att, pending, and
\* another object than `old`, the one load_resolver held (gen tells them apart)
Promise(att, old) ==
  [ att |-> att, resolved |-> FALSE,
    gen |-> IF old = Null THEN 0 ELSE 1 - Val(old).gen ]

\* stopRecording(): a fresh promise takes the place of this.load_resolver
stopRecording(s, size) ==
  LET s1 == recorder_stop(s, size)
  IN [s1 EXCEPT !.load_resolver = Some(Promise(s.nstarts, s.load_resolver))]

\* startRecording()
startRecording(s) == recorder_start(s)

\* the click listener addButtonEvent puts on #finish-trial; the time measured
\* is kept as the recording whose display was clicked
finish_trial_click(s, size) ==
  stopRecording(
    [s EXCEPT !.rt = Some(s.display.att)], size)

\* the click listener of #record-again
record_again_click(s) == startRecording(revokeObjectURL(s))

\* the click listener of #continue
continue_click(s) == endTrial(s, "accept")

data_available_handler_unfiltered(s, e) ==
  [s EXCEPT !.recorded_data_chunks = Append(@, [att |-> e.att, ser |-> e.ser])]

\* data_available_handler(e)
data_available_handler(s, e) ==
  IF e.size > 0
  THEN [s EXCEPT !.recorded_data_chunks = Append(@, [att |-> e.att, ser |-> e.ser])]
  ELSE s

\* the two strings this.response is given
filename(url) == [kind |-> "file", stamp |-> Some(url), bytes |-> <<>>]
base64(blob) == [kind |-> "base64", stamp |-> Null, bytes |-> blob.chunks]

\* stop_event_handler(): recorded_data_chunks[0].type throws on an empty
\* list, this.load_resolver() throws while it is undefined; a throw ends the
\* handler where it stands
stop_event_handler(s, e) ==
  IF s.recorded_data_chunks = <<>> THEN s
  ELSE
    LET url == [id |-> s.urls + 1, att |-> e.att]
        blob == [id |-> s.urls + 1, chunks |-> s.recorded_data_chunks]
        s1 == [s EXCEPT !.urls = @ + 1,
                        !.object_urls = @ \cup {url},
                        !.audio_url = Some(url)]
        s2 == [s1 EXCEPT !.response = Some(filename(url))]
        rest(u) == [u EXCEPT !.readers = @ \cup {blob},
                             !.data = Some(blob.id),
                             !.bufferReaders = @ \cup {blob}]
    IN IF ~trial.local_download THEN rest(s1)
       ELSE IF s2.load_resolver = Null THEN s2
       ELSE rest(load_resolver_call(s2))

reader_load_unresolved(s, blob) ==
  [s EXCEPT !.readers = @ \ {blob}, !.response = Some(base64(blob))]

\* the load listener of the readAsDataURL reader of `blob`
reader_load(s, blob) ==
  LET s1 == [s EXCEPT !.readers = @ \ {blob},
                      !.response = Some(base64(blob))]
  IN IF s1.load_resolver = Null THEN s1 ELSE load_resolver_call(s1)

\* fileReader.onloadend of the readAsArrayBuffer reader of `blob`
fileReader_onloadend(s, blob) ==
  [s EXCEPT !.bufferReaders = @ \ {blob}, !.arrayBuffer = Some(blob.id)]

showDisplay_button_always(s, att) ==
  [s EXCEPT !.observers = @ \cup {att},
            !.display = [view |-> "stimulus", att |-> att, done |-> TRUE,
                         hidden |-> FALSE, src |-> Null]]

\* showDisplay(display_element, trial), for the recording att
showDisplay(s, att) ==
  [s EXCEPT !.observers = @ \cup {att},
            !.display = [view |-> "stimulus", att |-> att,
                         done |-> trial.show_done_button,
                         hidden |-> FALSE, src |-> Null]]

\* the ResizeObserver callback of showDisplay
resize_observed(s, att) ==
  [s EXCEPT !.observers = @ \ {att}, !.stimulus_start_time = Some(att)]

\* hideStimulus(display_element)
hideStimulus(s) ==
  IF s.display.view = "stimulus" THEN [s EXCEPT !.display.hidden = TRUE] ELSE s

deadline_callback_unguarded(s, t, size) ==
  LET s1 == stopRecording([s EXCEPT !.timeouts = @ \ {t}], size)
  IN [s1 EXCEPT !.fired = @ \cup {[own |-> t.att = s.nstarts, stopped |-> TRUE]}]

\* the callback of the recording_duration timeout armed in recording t.att;
\* fired keeps whether t.att is the recording under way and whether it stopped
deadline_callback(s, t, size) ==
  LET s1 == [s EXCEPT !.timeouts = @ \ {t}]
      log(u, stopped) ==
        [u EXCEPT !.fired = @ \cup {[own |-> t.att = s.nstarts,
                                     stopped |-> stopped]}]
  IN IF s1.recorder_state # "inactive"
     THEN log(stopRecording(s1, size), TRUE)
     ELSE log(s1, FALSE)

\* the callback of the stimulus_duration timeout
hide_callback(s, t) == hideStimulus([s EXCEPT !.timeouts = @ \ {t}])

\* start_event_handler(e)
start_event_handler(s, e) ==
  LET s1 == [s EXCEPT !.recorded_data_chunks = <<>>,
                      !.recorder_start_time = Some(e.att)]
      s2 == showDisplay(s1, e.att)
      s3 == IF trial.stimulus_duration # Null
            THEN [s2 EXCEPT !.timeouts = @ \cup {[kind |-> "hide", att |-> e.att]}]
            ELSE s2
  IN IF trial.recording_duration # Null
     THEN [s3 EXCEPT !.timeouts = @ \cup {[kind |-> "deadline", att |-> e.att]}]
     ELSE s3

\* setupRecordingEvents(display_element, trial): the three listeners
setupRecordingEvents(s) == [s EXCEPT !.listeners = DeviceEvents]

\* trial(display_element, trial)
trial_method(s) == startRecording(setupRecordingEvents(s))

\* the recorder dispatches the event e to the listener registered for it
dispatch(s, e) ==
  IF e.type \notin s.listeners THEN s
  ELSE IF e.type = "start" THEN start_event_handler(s, e)
  ELSE IF e.type = "dataavailable" THEN data_available_handler(s, e)
  ELSE stop_event_handler(s, e)

\* one await of transcribe() settles: pipeline(...), fetch(audio_url),
\* transcriber(wav, ...); a rejection is caught nowhere
transcribe_step(p, ok) ==
  IF ~ok THEN [p EXCEPT !.pc = "rejected"]
  ELSE IF p.pc = "pipeline" THEN [p EXCEPT !.pc = "fetch"]
  ELSE IF p.pc = "fetch" THEN [p EXCEPT !.pc = "transcriber"]
  ELSE [p EXCEPT !.pc = "logged"]

\* ------------------------------------------------------------- actions
Init ==
  /\ trial \in Parameters
  /\ recorder_state = "inactive"
  /\ events = <<>>
  /\ listeners = {}
  /\ nstarts = 0
  /\ nfrags = 0
  /\ recorded_data_chunks = <<>>
  /\ audio_url = Null
  /\ response = Null
  /\ load_resolver = Null
  /\ rt = Null
  /\ stimulus_start_time = Null
  /\ recorder_start_time = Null
  /\ data = Null
  /\ arrayBuffer = Null
  /\ display = Blank
  /\ timeouts = {}
  /\ observers = {}
  /\ readers = {}
  /\ bufferReaders = {}
  /\ urls = 0
  /\ object_urls = {}
  /\ calls = <<>>
  /\ tx = <<>>
  /\ hist = <<>>
  /\ fired = {}
  /\ ext_stopped = FALSE
  /\ start_thrown = FALSE

\* a handler runs as one task, then the microtask checkpoint
Task(s) == LET u == RunJob(s) IN Within(u) /\ Commit(u)

\* the host runs the trial
Trial ==
  /\ nstarts = 0
  /\ Task(trial_method(S))

\* the recorder delivers its next queued event
Dispatch ==
  /\ events # <<>>
  /\ Task(dispatch([S EXCEPT !.events = Tail(@)], Head(events)))

\* the device hands over a blob while recording (a recorder with a timeslice,
\* or one asked by requestData())
DataProduced ==
  /\ recorder_state = "recording"
  /\ nfrags < MaxData
  /\ \E size \in 0..1 :
       Task([S EXCEPT !.nfrags = @ + 1,
                      !.events = Append(@, Event("dataavailable", nstarts, nfrags + 1, size))])

\* the recording ends without the plugin asking (the tracks of the stream end)
ExternalStop ==
  /\ recorder_state = "recording"
  /\ \E size \in 0..1 : Task([recorder_stop(S, size) EXCEPT !.ext_stopped = TRUE])

ClickDone ==
  /\ display.view = "stimulus"
  /\ display.done
  /\ \E size \in 0..1 : Task(finish_trial_click(S, size))

ClickRecordAgain ==
  /\ display.view = "playback"
  /\ Task(record_again_click(S))

\* the same click, in the specifications that stop at MaxAttempts recordings
ClickRecordAgainFew ==
  /\ ClickRecordAgain
  /\ nstarts' <= MaxAttempts

ClickAccept ==
  /\ display.view = "playback"
  /\ Task(continue_click(S))

Deadline ==
  \E t \in timeouts :
    /\ t.kind = "deadline"
    /\ \E size \in 0..1 : Task(deadline_callback(S, t, size))

HideTimeout ==
  \E t \in timeouts :
    /\ t.kind = "hide"
    /\ Task(hide_callback(S, t))

ResizeObserved ==
  \E att \in observers : Task(resize_observed(S, att))

ReaderLoad ==
  \E blob \in readers : Task(reader_load(S, blob))

BufferLoadEnd ==
  \E blob \in bufferReaders : Task(fileReader_onloadend(S, blob))

\* a revoked object URL cannot be fetched
Transcribe ==
  \E i \in DOMAIN tx, ok \in BOOLEAN :
    /\ tx[i].pc \in {"pipeline", "fetch", "transcriber"}
    /\ (ok /\ tx[i].pc = "fetch" /\ tx[i].audio_url # Null)
         => Val(tx[i].audio_url) \in object_urls
    /\ Task([S EXCEPT !.tx[i] = transcribe_step(@, ok)])

\* the tasks of the recording / review / conclusion lifecycle, with up to
\* MaxAttempts recordings
Lifecycle ==
  \/ Trial
  \/ Dispatch
  \/ ExternalStop
  \/ ClickDone
  \/ ClickRecordAgainFew
  \/ ClickAccept
  \/ Deadline
  \/ ReaderLoad

\* the same tasks, with up to MaxAttemptsReview recordings
LifecycleReview ==
  \/ Trial
  \/ Dispatch
  \/ ExternalStop
  \/ ClickDone
  \/ ClickRecordAgain
  \/ ClickAccept
  \/ Deadline
  \/ ReaderLoad

\* the tasks that write what no handler reads back: the stimulus visibility,
\* stimulus_start_time, arrayBuffer, and the progress of transcribe()
Detached ==
  \/ HideTimeout
  \/ ResizeObserved
  \/ BufferLoadEnd
  \/ Transcribe

Next == LifecycleReview \/ DataProduced \/ Detached

\* every task of the program, over every configuration
SpecAll == Init /\ [][Next]_vars

\* Detached tasks write only display.hidden, stimulus_start_time, arrayBuffer
\* and tx, which no Lifecycle task reads other than to copy them into
\* trial_data and the arguments of transcribe(); the specifications below
\* leave them out, or take in Transcribe alone, and start without a
\* stimulus_duration, which arms the HideTimeout callbacks only. Spec,
\* SpecTranscribe and SpecReview also leave out DataProduced: recorder.start()
\* is called without a timeslice, so the recorder hands over one blob per
\* recording, when it stops.
InitLifecycle == Init /\ trial.stimulus_duration = Null

Spec == InitLifecycle /\ [][Lifecycle]_vars

SpecTranscribe == InitLifecycle /\ [][Lifecycle \/ Transcribe]_vars

\* a recorder that also hands over blobs while it records
SpecData == InitLifecycle /\ [][Lifecycle \/ DataProduced]_vars

\* a trial without review and with a recording deadline, run by an event loop
\* that leaves no queued task waiting for ever: the trial starts, the recorder
\* delivers its events, timeouts run and reader loads arrive; clicks and blobs
\* handed over while recording may or may not happen
InitDeadline ==
  /\ Init
  /\ ~trial.allow_playback
  /\ trial.recording_duration # Null
  /\ trial.stimulus_duration = Null

NextDeadline ==
  \/ Trial
  \/ Dispatch
  \/ DataProduced
  \/ ClickDone
  \/ Deadline
  \/ ReaderLoad

SpecDeadline ==
  /\ InitDeadline
  /\ [][NextDeadline]_vars
  /\ WF_vars(Trial)
  /\ WF_vars(Dispatch)
  /\ WF_vars(Deadline)
  /\ WF_vars(ReaderLoad)

\* review with one more recording, which a third stop event needs
SpecReview == InitLifecycle /\ [][LifecycleReview]_vars

\* ------------------------------------------------------------- claims
\* the Trial Outcomes handed to jsPsych.finishTrial, in order; hist[i] is the
\* entry into endTrial that emitted Outcomes[i]. The Trial Outcome of the
\* trial is the first one, emitted from the state Concluded.
IsFinishTrial(c) == c.op = "finishTrial"
Outcomes == SelectSeq(calls, IsFinishTrial)
Outcome(i) == Outcomes[i].arg
Concluded == hist # <<>>
TrialOutcome == Outcome(1)
Conclusion == hist[1]

\* the recordings a response string was made from
ResponseAttempts(r) ==
  IF r.kind = "file" THEN {Val(r.stamp).att}
  ELSE {r.bytes[j].att : j \in DOMAIN r.bytes}

\* C1: finishTrial is called at most once per trial, for every configuration
\* and every interleaving of click, timer, device and decoder events.
C1_AtMostOneOutcome == Len(Outcomes) <= 1

\* C2: the response of a Trial Outcome is derived only from the fragments of
\* the final attempt (the recording armed last), never from fragments or
\* decoder results of an earlier attempt.
C2_ResponseOfFinalAttempt ==
  (Concluded /\ TrialOutcome.response # Null)
    => \A k \in ResponseAttempts(Val(TrialOutcome.response)) :
         Conclusion.attempt = Some(k)

\* C3: with local_download the response of the Trial Outcome is the download
\* filename, without it the base64 encoding of the assembled artifact, with
\* and without playback review.
C3_ResponseKind ==
  Concluded
    => /\ TrialOutcome.response # Null
       /\ Val(TrialOutcome.response).kind =
            IF trial.local_download THEN "file" ELSE "base64"

\* C4: rt in the Trial Outcome is null unless the done button was clicked
\* during the final attempt.
C4_RtOfFinalAttempt ==
  (Concluded /\ TrialOutcome.rt # Null) => TrialOutcome.rt = Conclusion.attempt

\* C5: a recording deadline that fires while the recorder is inactive does
\* nothing: no stop request, the pending stop-wait is not replaced, no change
\* of the display and no Trial Outcome (only the timeout itself is consumed).
DeadlineFires ==
  \E t \in timeouts : t.kind = "deadline" /\ timeouts' = timeouts \ {t}

C5_DeadlineNoOp ==
  [][ (recorder_state = "inactive" /\ DeadlineFires)
        => UNCHANGED << recorder_state, events, listeners, nstarts, nfrags,
                        recorded_data_chunks, audio_url, response, load_resolver,
                        rt, display, readers, urls, object_urls, calls, tx,
                        hist >> ]_vars

\* the done button was clicked in the only recording, whose own deadline then
\* fired and did nothing
C5_Witness ==
  /\ nstarts = 1
  /\ rt = Some(1)
  /\ ~ext_stopped
  /\ fired = {[own |-> TRUE, stopped |-> FALSE]}

\* C6: without save_audio_url the Trial Outcome carries no audio handle and
\* the final attempt's handle is released when the outcome is handed over;
\* with it the outcome carries the final attempt's handle, not released.
C6_AudioUrl ==
  Concluded =>
    IF trial.save_audio_url
    THEN /\ TrialOutcome.audio_url # Null
         /\ Some(Val(TrialOutcome.audio_url).att) = Conclusion.attempt
         /\ Val(TrialOutcome.audio_url) \in Conclusion.object_urls
    ELSE /\ TrialOutcome.audio_url = Null
         /\ \A u \in Conclusion.object_urls : Some(u.att) # Conclusion.attempt

\* C7: with recording_duration null and no done button, no Trial Outcome is
\* emitted before the device is stopped from outside.
C7_NoAutonomousConclusion ==
  (trial.recording_duration = Null /\ ~trial.show_done_button /\ ~ext_stopped)
    => Len(Outcomes) = 0

\* such a trial is recording with its stimulus shown, and no task of the
\* recorder is pending
C7_Witness ==
  /\ trial.recording_duration = Null
  /\ ~trial.show_done_button
  /\ ~ext_stopped
  /\ recorder_state = "recording"
  /\ display.view = "stimulus"
  /\ events = <<>>

\* C8: the trial concludes by one path, chosen by allow_playback: with it,
\* only from a click on accept while the review controls are shown; without
\* it, only from the stop-wait, and the review controls are never rendered.
C8_OnePath ==
  /\ \A i \in DOMAIN hist :
       IF trial.allow_playback
       THEN hist[i].via = "accept" /\ hist[i].view = "playback"
       ELSE hist[i].via = "stopped" /\ hist[i].view # "playback"
  /\ ~trial.allow_playback => display.view # "playback"

\* a trial with review concluded after a re-record
C8_Witness ==
  /\ trial.allow_playback
  /\ Len(hist) = 1
  /\ hist[1].attempt = Some(2)

\* C9: transcribe() is called only after the Trial Outcome was handed to
\* jsPsych.finishTrial, with that outcome's audio_url, and no step of it
\* changes the calls made to the host or any state of the trial.
TranscribeAfterFinishTrial ==
  \A i \in DOMAIN calls :
    calls[i].op = "transcribe"
      => /\ i > 1
         /\ calls[i - 1].op = "finishTrial"
         /\ calls[i - 1].arg.audio_url = calls[i].arg.audio_url

C9_Detached ==
  /\ []TranscribeAfterFinishTrial
  /\ [][ (Len(tx') = Len(tx) /\ tx' # tx)
           => UNCHANGED << recorder_state, events, listeners, nstarts, nfrags,
                           recorded_data_chunks, audio_url, response,
                           load_resolver, rt, display, timeouts, readers,
                           urls, object_urls, calls, hist >> ]_vars

\* the outcome was handed over and transcribe() failed afterwards
C9_Witness ==
  /\ Len(Outcomes) = 1
  /\ Len(tx) = 1
  /\ tx[1].pc = "rejected"

\* C10: no failure of transcribe() (pipeline, fetch or inference) is left
\* uncaught: its promise never ends rejected.
C10_NoUncaughtFailure ==
  \A i \in DOMAIN tx : tx[i].pc # "rejected"

\* C11: a recording deadline stops a recording only if it was armed in that
\* recording: a timer left over from an attempt that was stopped by hand never
\* stops the attempt a re-record started.
C11_OwnDeadlineOnly ==
  \A f \in fired : f.stopped => f.own

\* the stop-wait under way at the start of a step is resolved by that step
StopWaitResolves ==
  /\ load_resolver # Null
  /\ ~Val(load_resolver).resolved
  /\ load_resolver' = Some([Val(load_resolver) EXCEPT !.resolved = TRUE])

\* the stop event of recording att has been handled and left its object URL
\* and a response made from its fragments
Finalized(att) ==
  /\ \A j \in DOMAIN events : ~(events[j].type = "stop" /\ events[j].att = att)
  /\ audio_url # Null
  /\ Val(audio_url).att = att
  /\ response # Null
  /\ ResponseAttempts(Val(response)) = {att}

\* C12: the stop-wait made in an attempt is resolved (and its continuation
\* run) only once the stop event of that attempt was handled and its handle
\* and response exist; a reader load of an earlier attempt never resolves it.
C12_StopWaitOfSameAttempt ==
  [][ StopWaitResolves => Finalized(Val(load_resolver).att)' ]_vars

\* a task of the recorder, of a timeout or of a readAsDataURL reader ran
AsyncStep ==
  \/ events # <<>> /\ events' = Tail(events)
  \/ timeouts' # timeouts /\ timeouts' \subseteq timeouts
  \/ readers' # readers /\ readers' \subseteq readers

\* C14: once the trial has concluded the three recorder listeners are gone,
\* and no recorder event, timeout or reader load changes response, audio_url,
\* recorded_data_chunks, rt or the two timestamps.
C14_FrozenAfterConclusion ==
  /\ [](Concluded => listeners = {})
  /\ [][ (Concluded /\ AsyncStep)
           => UNCHANGED << response, audio_url, recorded_data_chunks, rt,
                           stimulus_start_time, recorder_start_time >> ]_vars

\* C15: while the display holds the playback markup, the object URL its
\* audio element is bound to has not been revoked.
C15_PlaybackUrlLive ==
  display.view = "playback"
    => /\ display.src # Null
       /\ Val(display.src) \in object_urls

\* response is assigned again for the recording it already holds a string
\* of, while that recording is still the one armed last
SecondResponse ==
  /\ response # Null
  /\ response' # response
  /\ ResponseAttempts(Val(response')) = ResponseAttempts(Val(response))
  /\ \A a \in ResponseAttempts(Val(response)) : recorder_start_time = Some(a)

\* C16: one response string per attempt: from the stop event of an attempt to
\* the next start event or the conclusion, response is assigned once, so never
\* a second time, and the Trial Outcome has a response.
C16_OneResponsePerAttempt ==
  /\ [][ ~Concluded => ~SecondResponse ]_vars
  /\ [](Concluded => TrialOutcome.response # Null)

\* the transcribe() calls, in order; the i-th is made by the i-th endTrial
IsTranscribe(c) == c.op = "transcribe"
Transcriptions == SelectSeq(calls, IsTranscribe)

\* C17: every transcribe() call is given the object URL of the final attempt,
\* defined and not revoked, with and without save_audio_url.
C17_TranscribeUrlLive ==
  \A i \in DOMAIN hist :
    LET u == Transcriptions[i].arg.audio_url
    IN /\ u # Null
       /\ Some(Val(u).att) = hist[i].attempt
       /\ Val(u) \in hist[i].object_urls

\* C19: at most one object URL is created and not revoked at any time; after
\* the conclusion the only one left is that of the final attempt, and only
\* with save_audio_url.
C19_AtMostOneLiveUrl ==
  /\ Cardinality(object_urls) <= 1
  /\ Concluded
       => \A u \in object_urls :
            trial.save_audio_url /\ Some(u.att) = Conclusion.attempt

\* C20: recorder.start() is called only while the recorder is inactive, so it
\* never throws, whatever clicks the record-again button receives.
C20_StartOnlyWhileInactive == ~start_thrown

\* what the delivery of the recorder event e does to recorded_data_chunks
ChunksAfter(e) ==
  IF e.type = "start" THEN <<>>
  ELSE IF e.type = "dataavailable" /\ e.size > 0
       THEN Append(recorded_data_chunks, [att |-> e.att, ser |-> e.ser])
       ELSE recorded_data_chunks

\* C13: until the conclusion recorded_data_chunks holds, in the order of
\* delivery, the non-empty blobs of the dataavailable events delivered since
\* the last start event, those delivered after stop() included, and no empty
\* blob: every blob in it is of the recording armed last, a start event
\* empties it, a dataavailable event appends its blob if it is not empty, and
\* no other task changes it.
C13_ChunksAreDeliveredFragments ==
  /\ [](\A j \in DOMAIN recorded_data_chunks :
          Some(recorded_data_chunks[j].att) = recorder_start_time)
  /\ [][ ~Concluded =>
           IF events # <<>> /\ events' = Tail(events)
           THEN recorded_data_chunks' = ChunksAfter(Head(events))
           ELSE UNCHANGED recorded_data_chunks ]_vars

\* the first blob of the recording was empty and left out, the blob handed
\* over at stop() came after it and was kept
C13_Witness ==
  /\ ~Concluded
  /\ ~ext_stopped
  /\ recorder_state = "inactive"
  /\ recorded_data_chunks = << [att |-> 1, ser |-> 2] >>

\* the recording has ended and every event of it was delivered, none with a
\* blob that was not empty
NoFragment ==
  /\ recorder_start_time # Null
  /\ recorder_state = "inactive"
  /\ events = <<>>
  /\ recorded_data_chunks = <<>>

\* C18: a trial without review and with a recording deadline hands over its
\* Trial Outcome in the end, whatever done clicks come before or after the
\* deadline, unless the recorder delivered no blob that was not empty.
C18_EventuallyConcludes == <>(Concluded \/ NoFragment)

\* such a trial concluded after a done click that the deadline found made
C18_Witness ==
  /\ Len(Outcomes) = 1
  /\ TrialOutcome.rt = Some(1)
  /\ fired = {[own |-> TRUE, stopped |-> FALSE]}

====
